---- MODULE Spec2Model ----
(***************************************************************************)
(* Subscription-plan controller (src/unnamed/part_000): the five express   *)
(* handlers createSubscriptionPlan, listSubscriptionPlans,                 *)
(* getSubscriptionPlan, updateSubscriptionPlan and deleteSubscriptionPlan, *)
(* their zod schemas, createErrorResponse / handleDatabaseError, and the   *)
(* backing store they reach through supabase.rpc.                          *)
(*                                                                         *)
(* A handler is an async function: it runs atomically from one await to    *)
(* the next.  Each action below is one such segment: the completion of the *)
(* awaited remote call at the store together with the handler code that    *)
(* runs on its result, up to the next await or to the response.            *)
(***************************************************************************)
EXTENDS Integers, Sequences, FiniteSets, TLC

VARIABLES
    plans,      \* backing store: the set of subscription-plan rows
    nodeEnv,    \* process.env.NODE_ENV
    pc,         \* per request slot: where its handler is suspended
    req,        \* per request slot: the express Request (op, params, query, body)
    loc,        \* per request slot: the handler's local variables
    calls,      \* per request slot: the supabase.rpc invocations made, in order
    sent        \* per request slot: the responses sent on its Response object

vars == <<plans, nodeEnv, pc, req, loc, calls, sent>>

---------------------------------------------------------------------------
(* Bounds of the model *)

\* number of distinct plan ids the store can hand out
MaxPlans == 1

---------------------------------------------------------------------------
(* JavaScript / JSON values *)

\* the JS value undefined (a missing property reads as undefined)
UNDEF == "undefined"

Str(s) == [t |-> "string", v |-> s]
Num(n) == [t |-> "number", v |-> n]
Bool(b) == [t |-> "boolean", v |-> b]
Obj(o) == [t |-> "object", v |-> o]
JsNull == [t |-> "null"]

Has(o, k) == k \in DOMAIN o

\* o with property k set to v
With(o, k, v) == [x \in (DOMAIN o) \cup {k} |-> IF x = k THEN v ELSE o[x]]

\* o without property k
Without(o, k) == [x \in (DOMAIN o) \ {k} |-> o[x]]

\* object spread {...a, ...b}: the properties of b override those of a
Spread(a, b) == [x \in (DOMAIN a) \cup (DOMAIN b) |-> IF x \in DOMAIN b THEN b[x] ELSE a[x]]

\* the object restricted to the keys in ks that it has
Pick(o, ks) == [x \in (DOMAIN o) \cap ks |-> o[x]]

EmptyObject == [x \in {} |-> UNDEF]

---------------------------------------------------------------------------
(* Identifiers *)

\* well-formed UUID strings the store can generate as plan ids, in order
PlanUuids == <<"plan-uuid-1", "plan-uuid-2", "plan-uuid-3", "plan-uuid-4">>

PlanIds == {PlanUuids[i] : i \in 1..MaxPlans}

\* merchants known to the store, and a well-formed merchant id it does not know
MerchantA == "merchant-uuid-A"
MerchantB == "merchant-uuid-B"
MerchantUnknown == "merchant-uuid-X"
MerchantIds == {MerchantA, MerchantB, MerchantUnknown}

\* a path segment that is not a UUID
NotAUuid == "not-a-uuid"

\* z.string().uuid(): the strings that match the UUID pattern
IsUuid(s) == s \in MerchantIds \cup {PlanUuids[i] : i \in 1..Len(PlanUuids)}

---------------------------------------------------------------------------
(* Number(): the coercion z.coerce.number() applies to a query-string value. *)
(* A query value is a sequence of characters.                                *)

Digits == <<"0", "1", "2", "3", "4", "5", "6", "7", "8", "9">>

IsDigit(c) == \E i \in 1..10 : Digits[i] = c

DigitValue(c) == (CHOOSE i \in 1..10 : Digits[i] = c) - 1

RECURSIVE DigitsValue(_)
DigitsValue(s) ==
    IF s = << >> THEN 0
    ELSE 10 * DigitsValue(SubSeq(s, 1, Len(s) - 1)) + DigitValue(s[Len(s)])

AllDigits(s) == \A i \in 1..Len(s) : IsDigit(s[i])

\* NaN, or a number given by its integer part, its sign, and whether it has a
\* non-zero fractional part
NaN == [nan |-> TRUE]

JsNumber(s) ==
    IF s = << >> THEN [nan |-> FALSE, int |-> 0, frac |-> FALSE, neg |-> FALSE]
    ELSE
      LET signed == Head(s) \in {"-", "+"}
          neg == Head(s) = "-"
          body == IF signed THEN Tail(s) ELSE s
          dots == {i \in 1..Len(body) : body[i] = "."}
          dot == IF dots = {} THEN Len(body) + 1 ELSE CHOOSE i \in dots : \A j \in dots : i <= j
          ip == SubSeq(body, 1, dot - 1)
          fp == SubSeq(body, dot + 1, Len(body))
      IN IF Cardinality(dots) > 1 \/ ~AllDigits(ip) \/ ~AllDigits(fp) \/ (ip = << >> /\ fp = << >>)
         THEN NaN
         ELSE [nan |-> FALSE,
               int |-> IF neg THEN 0 - DigitsValue(ip) ELSE DigitsValue(ip),
               frac |-> DigitsValue(fp) # 0,
               neg |-> neg]

IsInt(n) == ~n.frac
IsPositive(n) == ~n.neg /\ (n.int > 0 \/ n.frac)
IsAtLeastOne(n) == ~n.neg /\ n.int >= 1
IsNonNegative(n) == ~n.neg \/ (n.int = 0 /\ ~n.frac)

---------------------------------------------------------------------------
(* Zod schemas.  A schema maps an input to the result of safeParse:         *)
(* [success |-> TRUE, data |-> ...] or [success |-> FALSE, issues |-> ...], *)
(* issues being the set of offending paths.                                 *)

\* members of the generated enums of ../types/api
CurrencyCode == {"USD"}
BillingFrequency == {"monthly"}
FailedPaymentAction == {"continue"}
FirstPaymentType == {"initial"}

ParseResult(issues, data) ==
    IF issues = {} THEN [success |-> TRUE, data |-> data]
    ELSE [success |-> FALSE, issues |-> issues]

IsString(o, k) == Has(o, k) /\ o[k].t = "string"
IsEnum(o, k, E) == IsString(o, k) /\ o[k].v \in E

\* the keys of createSubscriptionPlanSchema
CreateKeys ==
    {"name", "description", "amount", "currency_code", "billing_frequency",
     "failed_payment_action", "charge_day", "metadata", "first_payment_type"}

createSubscriptionPlanSchema(body) ==
    LET issues ==
          {k \in CreateKeys :
             \/ k = "name" /\ ~(IsString(body, k) /\ body[k].v # "")
             \/ k = "description" /\ Has(body, k) /\ body[k].t \notin {"string", "null"}
             \/ k = "amount" /\ ~(Has(body, k) /\ body[k].t = "number" /\ body[k].v > 0)
             \/ k = "currency_code" /\ ~IsEnum(body, k, CurrencyCode)
             \/ k = "billing_frequency" /\ ~IsEnum(body, k, BillingFrequency)
             \/ k = "failed_payment_action" /\ Has(body, k) /\ ~IsEnum(body, k, FailedPaymentAction)
             \/ k = "charge_day" /\ Has(body, k) /\ body[k].t # "null"
                  /\ ~(body[k].t = "number" /\ body[k].v >= 1 /\ body[k].v <= 31)
             \/ k = "metadata" /\ Has(body, k) /\ body[k].t # "object"
             \/ k = "first_payment_type" /\ Has(body, k) /\ ~IsEnum(body, k, FirstPaymentType)}
    IN ParseResult(issues, Pick(body, CreateKeys))

\* the keys of updateSubscriptionPlanApiSchema
UpdateKeys == {"metadata", "is_active"}

\* the update schema without its refinement: an empty body passes
updateSchemaWithoutRefine(body) ==
    LET issues ==
          {k \in UpdateKeys :
             \/ k = "metadata" /\ Has(body, k) /\ body[k].t # "object"
             \/ k = "is_active" /\ Has(body, k) /\ body[k].t # "boolean"}
    IN ParseResult(issues, Pick(body, UpdateKeys))

updateSubscriptionPlanApiSchema(body) ==
    LET issues ==
          {k \in UpdateKeys :
             \/ k = "metadata" /\ Has(body, k) /\ body[k].t # "object"
             \/ k = "is_active" /\ Has(body, k) /\ body[k].t # "boolean"}
        data == Pick(body, UpdateKeys)
        refined == Has(data, "is_active") \/ Has(data, "metadata")
    IN ParseResult(IF issues = {} /\ ~refined THEN {"body"} ELSE issues, data)

merchantIdParamSchema(params) ==
    ParseResult({k \in {"merchant_id"} : ~(Has(params, k) /\ IsUuid(params[k]))},
                Pick(params, {"merchant_id"}))

planIdParamSchema(params) ==
    ParseResult({k \in {"plan_id"} : ~(Has(params, k) /\ IsUuid(params[k]))},
                Pick(params, {"plan_id"}))

\* merchantIdParamSchema.merge(planIdParamSchema)
merchantAndPlanParamsSchema(params) ==
    LET m == merchantIdParamSchema(params)
        i == planIdParamSchema(params)
    IN ParseResult((IF m.success THEN {} ELSE m.issues) \cup (IF i.success THEN {} ELSE i.issues),
                   Pick(params, {"merchant_id", "plan_id"}))

DEFAULT_LIMIT == 20
DEFAULT_OFFSET == 0

\* the limit schema with another default
LimitSchemaDefaultTen(input) ==
    IF ~Has(input, "limit") THEN [ok |-> TRUE, value |-> 10]
    ELSE LET n == JsNumber(input.limit)
         IN IF ~n.nan /\ IsInt(n) /\ IsPositive(n) /\ IsAtLeastOne(n)
            THEN [ok |-> TRUE, value |-> n.int]
            ELSE [ok |-> FALSE]

\* z.coerce.number().int().positive().min(1).optional().default(20)
LimitSchema(input) ==
    IF ~Has(input, "limit") THEN [ok |-> TRUE, value |-> DEFAULT_LIMIT]
    ELSE LET n == JsNumber(input.limit)
         IN IF ~n.nan /\ IsInt(n) /\ IsPositive(n) /\ IsAtLeastOne(n)
            THEN [ok |-> TRUE, value |-> n.int]
            ELSE [ok |-> FALSE]

\* z.coerce.number().int().nonnegative().optional().default(0)
OffsetSchema(input) ==
    IF ~Has(input, "offset") THEN [ok |-> TRUE, value |-> DEFAULT_OFFSET]
    ELSE LET n == JsNumber(input.offset)
         IN IF ~n.nan /\ IsInt(n) /\ IsNonNegative(n)
            THEN [ok |-> TRUE, value |-> n.int]
            ELSE [ok |-> FALSE]

listParamsSchema(input) ==
    LET m == merchantIdParamSchema(input)
        l == LimitSchema(input)
        o == OffsetSchema(input)
        issues == (IF m.success THEN {} ELSE {"merchant_id"})
                    \cup (IF l.ok THEN {} ELSE {"limit"})
                    \cup (IF o.ok THEN {} ELSE {"offset"})
    IN IF issues = {}
       THEN [success |-> TRUE,
             data |-> [merchant_id |-> input.merchant_id, limit |-> l.value, offset |-> o.value]]
       ELSE [success |-> FALSE, issues |-> issues]

---------------------------------------------------------------------------
(* Error responses *)

INVALID_REQUEST == "INVALID_REQUEST"
NOT_FOUND == "NOT_FOUND"
CONFLICT == "CONFLICT"
DATABASE_ERROR == "DATABASE_ERROR"
INTERNAL_ERROR == "INTERNAL_ERROR"

\* new Date().toISOString(): the wall clock is not modelled
Timestamp == "iso-8601"

createErrorResponse(status, code, message, details) ==
    [error |-> [status |-> status, code |-> code, message |-> message,
                details |-> details, timestamp |-> Timestamp]]

\* property read on an error object: undefined when the property is missing
Get(o, k) == IF Has(o, k) THEN o[k] ELSE UNDEF

MsgResourceNotFound == "Resource not found"
MsgForeignKey == "Operation violates foreign key constraint. Related records exist."
MsgPlanInUse == "Cannot delete subscription plan: It is currently in use by active subscriptions."
HintPlanInUse == "Delete associated subscriptions first or deactivate the plan."
MsgUnique == "Resource already exists or violates unique constraint"
MsgDatabase == "Database operation failed"

\* the table with invalid input syntax (22P02) taken for a bad request
handleDatabaseErrorBadSyntax(error, context) ==
    LET c == Get(error, "code")
        details == [db_code |-> c,
                    db_message |-> Get(error, "message"),
                    db_hint |-> Get(error, "hint"),
                    db_details |-> Get(error, "details")]
    IN CASE c = "PGRST116" ->
              createErrorResponse(404, NOT_FOUND, MsgResourceNotFound, details)
         [] c = "22P02" ->
              createErrorResponse(400, INVALID_REQUEST, "Invalid input syntax", details)
         [] c = "23503" /\ context = "deleteSubscriptionPlan" ->
              createErrorResponse(409, CONFLICT, MsgPlanInUse, With(details, "hint", HintPlanInUse))
         [] c = "23503" /\ context # "deleteSubscriptionPlan" ->
              createErrorResponse(409, CONFLICT, MsgForeignKey, details)
         [] c = "23505" ->
              createErrorResponse(409, CONFLICT, MsgUnique, details)
         [] OTHER ->
              createErrorResponse(500, DATABASE_ERROR, MsgDatabase, details)

handleDatabaseError(error, context) ==
    LET c == Get(error, "code")
        details == [db_code |-> c,
                    db_message |-> Get(error, "message"),
                    db_hint |-> Get(error, "hint"),
                    db_details |-> Get(error, "details")]
    IN CASE c \in {"PGRST116", "22P02"} ->
              createErrorResponse(404, NOT_FOUND, MsgResourceNotFound, details)
         [] c = "23503" /\ context = "deleteSubscriptionPlan" ->
              createErrorResponse(409, CONFLICT, MsgPlanInUse, With(details, "hint", HintPlanInUse))
         [] c = "23503" /\ context # "deleteSubscriptionPlan" ->
              createErrorResponse(409, CONFLICT, MsgForeignKey, details)
         [] c = "23505" ->
              createErrorResponse(409, CONFLICT, MsgUnique, details)
         [] OTHER ->
              createErrorResponse(500, DATABASE_ERROR, MsgDatabase, details)

\* the details argument of the catch blocks:
\* process.env.NODE_ENV === "production" ? undefined : error.message
CatchDetails(env, thrown) == IF env = "production" THEN UNDEF ELSE thrown.message

\* the catch block of a handler; message is the handler's own text
CatchResponse(env, message, thrown) ==
    [status |-> 500,
     body |-> createErrorResponse(500, INTERNAL_ERROR, message, CatchDetails(env, thrown))]

\* zod's error.format(), reduced to the offending paths
Format(issues) == [paths |-> issues]

\* res.status(400).json(createErrorResponse(400, INVALID_REQUEST, message, error.format()))
ValidationResponse(message, parsed) ==
    [status |-> 400,
     body |-> createErrorResponse(400, INVALID_REQUEST, message, Format(parsed.issues))]

---------------------------------------------------------------------------
(* The backing store and its remote procedures.  A remote call ends in one *)
(* of four ways: {data, error: null}, {data: null, error: null},           *)
(* {data: null, error} or a thrown exception.                              *)

Data(d) == [kind |-> "data", data |-> d]
Null == [kind |-> "null"]
Failed(e) == [kind |-> "error", error |-> e]
Thrown(m) == [kind |-> "throw", thrown |-> [message |-> m]]

\* the organization of each merchant the store knows
OrganizationOf(m) ==
    CASE m = MerchantA -> "org-uuid-A"
      [] m = MerchantB -> "org-uuid-B"
      [] OTHER -> UNDEF

DefaultMetadata == "{}"

FreePlanIds(rows) == {i \in 1..MaxPlans : \A r \in rows : r.plan_id # PlanUuids[i]}

\* rows in plan-id order, as a sequence
RECURSIVE RowsFrom(_, _)
RowsFrom(rows, i) ==
    IF i > Len(PlanUuids) THEN << >>
    ELSE LET here == {r \in rows : r.plan_id = PlanUuids[i]}
         IN (IF here = {} THEN << >> ELSE << CHOOSE r \in here : TRUE >>) \o RowsFrom(rows, i + 1)

Min(a, b) == IF a < b THEN a ELSE b

\* what the store answers to a call, and the rows it holds afterwards
StoreReplies(call, rows) ==
    LET a == call.args IN
    CASE call.fn = "get_merchant_organization_id" ->
           {[result |-> IF OrganizationOf(a.p_merchant_id) = UNDEF THEN Null
                        ELSE Data(OrganizationOf(a.p_merchant_id)),
             rows |-> rows]}
      [] call.fn = "create_subscription_plan" ->
           LET free == FreePlanIds(rows) IN
           IF free = {} THEN {}
           ELSE LET id == PlanUuids[CHOOSE i \in free : \A j \in free : i <= j]
                    row == [plan_id |-> id,
                            merchant_id |-> a.p_merchant_id,
                            organization_id |-> a.p_organization_id,
                            name |-> a.p_name.v,
                            amount |-> a.p_amount.v,
                            is_active |-> TRUE,
                            metadata |-> IF Has(a, "p_metadata") THEN a.p_metadata.v
                                         ELSE DefaultMetadata]
                IN {[result |-> Data(id), rows |-> rows \cup {row}]}
      [] call.fn = "get_subscription_plan" ->
           {[result |-> Data(RowsFrom({r \in rows : r.plan_id = a.p_plan_id
                                                   /\ r.merchant_id = a.p_merchant_id}, 1)),
             rows |-> rows]}
      [] call.fn = "list_subscription_plans" ->
           LET all == RowsFrom({r \in rows : r.merchant_id = a.p_merchant_id}, 1)
           IN {[result |-> Data(SubSeq(all, a.p_offset + 1, Min(Len(all), a.p_offset + a.p_limit))),
                rows |-> rows]}
      [] call.fn = "update_subscription_plan_api" ->
           LET hit == {r \in rows : r.plan_id = a.p_plan_id /\ r.merchant_id = a.p_merchant_id}
               upd(r) == [r EXCEPT !.is_active = IF Has(a, "p_is_active") THEN a.p_is_active.v ELSE @,
                                   !.metadata = IF Has(a, "p_metadata") THEN a.p_metadata.v ELSE @]
           IN {[result |-> Data(hit # {}),
                rows |-> (rows \ hit) \cup {upd(r) : r \in hit}]}
      [] call.fn = "delete_subscription_plan" ->
           {[result |-> Null, rows |-> {r \in rows : r.plan_id # a.p_plan_id}]}

\* error objects the store client can hand back; the last one has no code
StoreErrorCodes == {"PGRST116", "22P02", "23503", "23505", "42883"}

StoreErrors ==
    {[code |-> c, message |-> "db message", hint |-> "db hint", details |-> "db details"] :
        c \in StoreErrorCodes}
    \cup {[message |-> "fetch failed"]}

ThrownMessage == "socket hang up"

\* every way the call in flight can end; a failed call leaves the rows alone
Outcomes(call, rows) ==
    StoreReplies(call, rows)
    \cup {[result |-> Failed(e), rows |-> rows] : e \in StoreErrors}
    \cup {[result |-> Null, rows |-> rows]}
    \cup {[result |-> Thrown(ThrownMessage), rows |-> rows]}

---------------------------------------------------------------------------
(* Handler segments.  A segment ends either by sending a response or by   *)
(* issuing the next remote call and suspending on it.                     *)

Reply(response) == [k |-> "reply", response |-> response]
Await(at, locals, fn, args) ==
    [k |-> "await", pc |-> at, loc |-> locals, call |-> [fn |-> fn, args |-> args]]
\* await delay(FETCH_DELAY_MS): suspended on the timer, no call in flight
Sleep(at, locals) == [k |-> "sleep", pc |-> at, loc |-> locals]

Json(status, body) == [status |-> status, body |-> body]

\* if (error)
IsError(result) == result.kind = "error"
\* !data for a remote result whose data is a string
IsFalsy(result) ==
    \/ result.kind = "null"
    \/ result.kind = "data" /\ result.data = ""
\* !data for a remote result whose data is a boolean
IsFalse(result) ==
    \/ result.kind = "null"
    \/ result.kind = "data" /\ result.data = FALSE
\* !data || data.length === 0 for a remote result whose data is an array
IsEmptyRows(result) ==
    \/ result.kind = "null"
    \/ result.kind = "data" /\ Len(result.data) = 0

(* ---- createSubscriptionPlan ---- *)

MsgCreateCatch == "An unexpected error occurred while creating the subscription plan"
MsgCreateFetchFailed == "Subscription plan created, but failed to retrieve details immediately."

\* the arguments of the create_subscription_plan call
CreateArgs(merchant_id, organizationData, planData) ==
    LET param == [name |-> "p_name", description |-> "p_description",
                  billing_frequency |-> "p_billing_frequency", amount |-> "p_amount",
                  currency_code |-> "p_currency_code",
                  failed_payment_action |-> "p_failed_payment_action",
                  charge_day |-> "p_charge_day", metadata |-> "p_metadata",
                  first_payment_type |-> "p_first_payment_type"]
        from(x) == CHOOSE k \in DOMAIN planData : param[k] = x
    IN [x \in {"p_merchant_id", "p_organization_id"} \cup {param[k] : k \in DOMAIN planData} |->
          CASE x = "p_merchant_id" -> merchant_id
            [] x = "p_organization_id" -> organizationData
            [] OTHER -> planData[from(x)]]

\* steps 1-3: validate the path and the body, then ask for the organization
CreateBegin(r, env) ==
    LET paramsValidation == merchantIdParamSchema(r.params)
        bodyValidation == createSubscriptionPlanSchema(r.body)
    IN IF ~paramsValidation.success
       THEN Reply(ValidationResponse("Invalid Merchant ID in URL", paramsValidation))
       ELSE IF ~bodyValidation.success
       THEN Reply(ValidationResponse("Invalid request body", bodyValidation))
       ELSE Await("create:organization",
                  [merchant_id |-> paramsValidation.data.merchant_id,
                   planData |-> bodyValidation.data],
                  "get_merchant_organization_id",
                  [p_merchant_id |-> paramsValidation.data.merchant_id])

\* the organization step without the check for an empty lookup
CreateOnOrganizationUnchecked(l, result, env) ==
    IF result.kind = "throw" THEN Reply(CatchResponse(env, MsgCreateCatch, result.thrown))
    ELSE IF IsError(result)
    THEN Reply(Json(404, handleDatabaseError(result.error,
                         "createSubscriptionPlan - get_merchant_organization_id")))
    ELSE Await("create:rpc",
               With(l, "organizationData", IF result.kind = "data" THEN result.data ELSE UNDEF),
               "create_subscription_plan",
               CreateArgs(l.merchant_id, IF result.kind = "data" THEN result.data ELSE UNDEF,
                          l.planData))

\* steps 3-4: the organization lookup has ended
CreateOnOrganization(l, result, env) ==
    IF result.kind = "throw" THEN Reply(CatchResponse(env, MsgCreateCatch, result.thrown))
    ELSE IF IsError(result)
    THEN Reply(Json(404, handleDatabaseError(result.error,
                         "createSubscriptionPlan - get_merchant_organization_id")))
    ELSE IF IsFalsy(result)
    THEN Reply(Json(404, createErrorResponse(404, NOT_FOUND,
                         "Organization not found for the provided Merchant ID", UNDEF)))
    ELSE Await("create:rpc",
               With(l, "organizationData", result.data),
               "create_subscription_plan",
               CreateArgs(l.merchant_id, result.data, l.planData))

\* step 4: the create procedure has ended
CreateOnCreated(l, result, env) ==
    IF result.kind = "throw" THEN Reply(CatchResponse(env, MsgCreateCatch, result.thrown))
    ELSE IF IsError(result)
    THEN Reply(Json(500, handleDatabaseError(result.error,
                         "createSubscriptionPlan - create_subscription_plan RPC")))
    ELSE IF IsFalsy(result)
    THEN Reply(Json(500, createErrorResponse(500, INTERNAL_ERROR,
                         "Failed to create subscription plan: No ID returned from database",
                         UNDEF)))
    ELSE Sleep("create:delay", With(l, "planId", result.data))

\* step 5: the delay has elapsed, refetch the plan
CreateOnDelay(l) ==
    Await("create:fetch", l, "get_subscription_plan",
          [p_plan_id |-> l.planId, p_merchant_id |-> l.merchant_id])

\* the refetch handled as the other calls are: a failed refetch fails the request
CreateOnFetchedStrict(l, result, env) ==
    IF result.kind = "throw" THEN Reply(CatchResponse(env, MsgCreateCatch, result.thrown))
    ELSE IF IsError(result)
    THEN Reply(Json(500, handleDatabaseError(result.error, "createSubscriptionPlan")))
    ELSE IF IsEmptyRows(result)
    THEN Reply(Json(404, createErrorResponse(404, NOT_FOUND,
                         "Subscription plan not found for this merchant.", UNDEF)))
    ELSE Reply(Json(201, [success |-> TRUE, data |-> result.data[1]]))

\* steps 5-6: the refetch has ended
CreateOnFetched(l, result, env) ==
    IF result.kind = "throw" THEN Reply(CatchResponse(env, MsgCreateCatch, result.thrown))
    ELSE IF IsError(result) \/ IsEmptyRows(result)
    THEN Reply(Json(201, [success |-> TRUE, message |-> MsgCreateFetchFailed,
                          data |-> [plan_id |-> l.planId]]))
    ELSE Reply(Json(201, [success |-> TRUE, data |-> result.data[1]]))

(* ---- listSubscriptionPlans ---- *)

MsgListCatch == "An unexpected error occurred while listing subscription plans"

\* step 1: validate path and query together, then call the listing procedure
ListBegin(r, env) ==
    LET validationResult == listParamsSchema(Spread(r.params, r.query))
    IN IF ~validationResult.success
       THEN Reply(ValidationResponse("Invalid path or query parameters", validationResult))
       ELSE Await("list:rpc", validationResult.data, "list_subscription_plans",
                  [p_merchant_id |-> validationResult.data.merchant_id,
                   p_limit |-> validationResult.data.limit,
                   p_offset |-> validationResult.data.offset])

\* steps 2-3: the listing procedure has ended
ListOnListed(l, result, env) ==
    IF result.kind = "throw" THEN Reply(CatchResponse(env, MsgListCatch, result.thrown))
    ELSE IF IsError(result)
    THEN Reply(Json(500, handleDatabaseError(result.error, "listSubscriptionPlans")))
    ELSE LET data == IF result.kind = "null" THEN << >> ELSE result.data
         IN Reply(Json(200, [success |-> TRUE, data |-> data,
                             meta |-> [limit |-> l.limit, offset |-> l.offset,
                                       total_returned |-> Len(data)]]))

(* ---- getSubscriptionPlan ---- *)

MsgGetCatch == "An unexpected error occurred while retrieving the subscription plan"

\* step 1: validate the path, then call the fetch procedure
GetBegin(r, env) ==
    LET paramsValidation == merchantAndPlanParamsSchema(r.params)
    IN IF ~paramsValidation.success
       THEN Reply(ValidationResponse("Invalid Merchant or Plan ID in URL", paramsValidation))
       ELSE Await("get:rpc", paramsValidation.data, "get_subscription_plan",
                  [p_plan_id |-> paramsValidation.data.plan_id,
                   p_merchant_id |-> paramsValidation.data.merchant_id])

\* the get step asking the store again after a store error
GetOnFetchedRetrying(l, result, env) ==
    IF result.kind = "throw" THEN Reply(CatchResponse(env, MsgGetCatch, result.thrown))
    ELSE IF IsError(result)
    THEN Await("get:rpc", l, "get_subscription_plan",
               [p_plan_id |-> l.plan_id, p_merchant_id |-> l.merchant_id])
    ELSE IF IsEmptyRows(result)
    THEN Reply(Json(404, createErrorResponse(404, NOT_FOUND,
                         "Subscription plan not found for this merchant.", UNDEF)))
    ELSE Reply(Json(200, [success |-> TRUE, data |-> result.data[1]]))

\* the get step without the check for an empty result
GetOnFetchedUnchecked(l, result, env) ==
    IF result.kind = "throw" THEN Reply(CatchResponse(env, MsgGetCatch, result.thrown))
    ELSE IF IsError(result)
    THEN Reply(Json(500, handleDatabaseError(result.error, "getSubscriptionPlan")))
    ELSE IF IsEmptyRows(result)
    THEN Reply(Json(200, [success |-> TRUE]))
    ELSE Reply(Json(200, [success |-> TRUE, data |-> result.data[1]]))

\* steps 2-4: the fetch procedure has ended
GetOnFetched(l, result, env) ==
    IF result.kind = "throw" THEN Reply(CatchResponse(env, MsgGetCatch, result.thrown))
    ELSE IF IsError(result)
    THEN Reply(Json(500, handleDatabaseError(result.error, "getSubscriptionPlan")))
    ELSE IF IsEmptyRows(result)
    THEN Reply(Json(404, createErrorResponse(404, NOT_FOUND,
                         "Subscription plan not found for this merchant.", UNDEF)))
    ELSE Reply(Json(200, [success |-> TRUE, data |-> result.data[1]]))

(* ---- updateSubscriptionPlan ---- *)

MsgUpdateCatch == "An unexpected error occurred while updating the subscription plan"
MsgUpdateFetchFailed ==
    "Subscription plan updated successfully, but failed to retrieve updated details."

\* the arguments of the update_subscription_plan_api call
UpdateArgs(plan_id, merchant_id, updateData) ==
    LET param == [metadata |-> "p_metadata", is_active |-> "p_is_active"]
        from(x) == CHOOSE k \in DOMAIN updateData : param[k] = x
    IN [x \in {"p_plan_id", "p_merchant_id"} \cup {param[k] : k \in DOMAIN updateData} |->
          CASE x = "p_plan_id" -> plan_id
            [] x = "p_merchant_id" -> merchant_id
            [] OTHER -> updateData[from(x)]]

\* steps 1-3: validate the path and the body, then call the update procedure
UpdateBegin(r, env) ==
    LET paramsValidation == merchantAndPlanParamsSchema(r.params)
        bodyValidation == updateSubscriptionPlanApiSchema(r.body)
    IN IF ~paramsValidation.success
       THEN Reply(ValidationResponse("Invalid Merchant or Plan ID in URL", paramsValidation))
       ELSE IF ~bodyValidation.success
       THEN Reply(ValidationResponse("Invalid request body", bodyValidation))
       ELSE Await("update:rpc",
                  With(paramsValidation.data, "updateData", bodyValidation.data),
                  "update_subscription_plan_api",
                  UpdateArgs(paramsValidation.data.plan_id,
                             paramsValidation.data.merchant_id, bodyValidation.data))

\* the update step without the check of the success indicator
UpdateOnUpdatedUnchecked(l, result, env) ==
    IF result.kind = "throw" THEN Reply(CatchResponse(env, MsgUpdateCatch, result.thrown))
    ELSE IF IsError(result)
    THEN Reply(Json(500, handleDatabaseError(result.error, "updateSubscriptionPlan")))
    ELSE Sleep("update:delay", l)

\* step 3: the update procedure has ended
UpdateOnUpdated(l, result, env) ==
    IF result.kind = "throw" THEN Reply(CatchResponse(env, MsgUpdateCatch, result.thrown))
    ELSE IF IsError(result)
    THEN Reply(Json(500, handleDatabaseError(result.error, "updateSubscriptionPlan")))
    ELSE IF IsFalse(result)
    THEN Reply(Json(404, createErrorResponse(404, NOT_FOUND,
                         "Subscription plan not found for this merchant or update failed.",
                         UNDEF)))
    ELSE Sleep("update:delay", l)

\* step 5: the delay has elapsed, refetch the plan
UpdateOnDelay(l) ==
    Await("update:fetch", l, "get_subscription_plan",
          [p_plan_id |-> l.plan_id, p_merchant_id |-> l.merchant_id])

\* the refetch of an update answering with the values the handler wrote laid over
\* the row it read
UpdateOnFetchedEchoingWrite(l, result, env) ==
    IF result.kind = "throw" THEN Reply(CatchResponse(env, MsgUpdateCatch, result.thrown))
    ELSE IF IsError(result) \/ IsEmptyRows(result)
    THEN Reply(Json(200, [success |-> TRUE, message |-> MsgUpdateFetchFailed,
                          data |-> [plan_id |-> l.plan_id,
                                    updated_fields |-> DOMAIN l.updateData]]))
    ELSE Reply(Json(200, [success |-> TRUE,
                          data |-> [result.data[1] EXCEPT
                                      !.is_active = IF Has(l.updateData, "is_active")
                                                    THEN l.updateData.is_active.v ELSE @,
                                      !.metadata = IF Has(l.updateData, "metadata")
                                                   THEN l.updateData.metadata.v ELSE @]]))

\* steps 5-6: the refetch has ended
UpdateOnFetched(l, result, env) ==
    IF result.kind = "throw" THEN Reply(CatchResponse(env, MsgUpdateCatch, result.thrown))
    ELSE IF IsError(result) \/ IsEmptyRows(result)
    THEN Reply(Json(200, [success |-> TRUE, message |-> MsgUpdateFetchFailed,
                          data |-> [plan_id |-> l.plan_id,
                                    updated_fields |-> DOMAIN l.updateData]]))
    ELSE Reply(Json(200, [success |-> TRUE, data |-> result.data[1]]))

(* ---- deleteSubscriptionPlan ---- *)

MsgDeleteCatch == "An unexpected error occurred while deleting the subscription plan"

\* res.status(204).send(): no body
NoBody == << >>

\* step 1: validate the path, then call the delete procedure with the plan id alone
DeleteBegin(r, env) ==
    LET paramsValidation == merchantAndPlanParamsSchema(r.params)
    IN IF ~paramsValidation.success
       THEN Reply(ValidationResponse("Invalid Merchant or Plan ID in URL", paramsValidation))
       ELSE Await("delete:rpc", [plan_id |-> paramsValidation.data.plan_id],
                  "delete_subscription_plan",
                  [p_plan_id |-> paramsValidation.data.plan_id])

\* steps 2-3: the delete procedure has ended
DeleteOnDeleted(l, result, env) ==
    IF result.kind = "throw" THEN Reply(CatchResponse(env, MsgDeleteCatch, result.thrown))
    ELSE IF IsError(result)
    THEN LET errorResponse == handleDatabaseError(result.error, "deleteSubscriptionPlan")
         IN Reply(Json(errorResponse.error.status, errorResponse))
    ELSE Reply(Json(204, NoBody))

---------------------------------------------------------------------------
(* Requests *)

PathMerchants == MerchantIds \cup {NotAUuid}
\* merchants addressed by the requests on a single plan and by the listings
PlanPathMerchants == {MerchantA, MerchantB, NotAUuid}
PathPlans == PlanIds \cup {NotAUuid}

Metadata1 == "{tier:gold}"

BaseCreateBody ==
    [name |-> Str("Basic"), amount |-> Num(1000),
     currency_code |-> Str("USD"), billing_frequency |-> Str("monthly")]

CreateBodies ==
    {BaseCreateBody,
     With(BaseCreateBody, "amount", Num(-5)),
     With(BaseCreateBody, "amount", Num(0)),
     With(BaseCreateBody, "amount", Str("1000")),
     With(BaseCreateBody, "name", Str("")),
     Without(BaseCreateBody, "name"),
     With(BaseCreateBody, "currency_code", Str("ZZZ")),
     With(BaseCreateBody, "charge_day", Num(32)),
     With(BaseCreateBody, "metadata", Str("gold")),
     With(With(BaseCreateBody, "charge_day", Num(15)), "description", JsNull),
     With(BaseCreateBody, "metadata", Obj(Metadata1)),
     With(With(With(BaseCreateBody, "organization_id", Str("org-uuid-B")),
               "merchant_id", Str(MerchantB)), "is_active", Bool(FALSE))}

UpdateBodies ==
    {EmptyObject,
     [is_active |-> Bool(FALSE)],
     [is_active |-> Bool(TRUE)],
     [metadata |-> Obj(Metadata1)],
     [is_active |-> Str("no")],
     [name |-> Str("Renamed")],
     [is_active |-> Bool(FALSE), name |-> Str("Renamed")]}

ListQueries ==
    {EmptyObject,
     [limit |-> <<"1">>],
     [limit |-> <<"5">>, offset |-> <<"1">>],
     [limit |-> <<"2", ".", "0">>],
     [offset |-> <<"1">>],
     [offset |-> << >>],
     [limit |-> <<"0">>],
     [limit |-> << >>],
     [limit |-> <<"-", "1">>],
     [limit |-> <<"2", ".", "5">>],
     [limit |-> <<"a", "b", "c">>],
     [offset |-> <<"-", "1">>],
     [offset |-> <<"1", ".", "5">>],
     [merchant_id |-> MerchantB]}

Request(op, params, query, body) == [op |-> op, params |-> params, query |-> query, body |-> body]

CreateRequests ==
    {Request("create", [merchant_id |-> m], EmptyObject, b) : m \in PathMerchants, b \in CreateBodies}
ListRequests ==
    {Request("list", [merchant_id |-> m], q, EmptyObject) : m \in PlanPathMerchants, q \in ListQueries}
GetRequests ==
    {Request("get", [merchant_id |-> m, plan_id |-> i], EmptyObject, EmptyObject) :
        m \in PlanPathMerchants, i \in PathPlans}
UpdateRequests ==
    {Request("update", [merchant_id |-> m, plan_id |-> i], EmptyObject, b) :
        m \in PlanPathMerchants, i \in PathPlans, b \in UpdateBodies}
DeleteRequests ==
    {Request("delete", [merchant_id |-> m, plan_id |-> i], EmptyObject, EmptyObject) :
        m \in PlanPathMerchants, i \in PathPlans}

NoRequest == [op |-> "none"]

---------------------------------------------------------------------------
(* The state machine *)

\* request slots; requests are served one at a time in Spec
Slots == {"r1"}

Pending == [kind |-> "pending"]

Init ==
    /\ plans = {}
    /\ nodeEnv \in {"production", "development"}
    /\ pc = [p \in Slots |-> "idle"]
    /\ req = [p \in Slots |-> NoRequest]
    /\ loc = [p \in Slots |-> EmptyObject]
    /\ calls = [p \in Slots |-> << >>]
    /\ sent = [p \in Slots |-> << >>]

\* the handler of slot p ends its segment with step; log is its call log so far
Apply(p, step, log) ==
    /\ pc' = [pc EXCEPT ![p] = IF step.k = "reply" THEN "done" ELSE step.pc]
    /\ loc' = [loc EXCEPT ![p] = IF step.k = "reply" THEN @ ELSE step.loc]
    /\ calls' = [calls EXCEPT ![p] =
                   IF step.k = "await"
                   THEN Append(log, [fn |-> step.call.fn, args |-> step.call.args, result |-> Pending])
                   ELSE log]
    /\ sent' = [sent EXCEPT ![p] = IF step.k = "reply" THEN Append(@, step.response) ELSE @]

\* the call slot p is suspended on
InFlight(p) == calls[p][Len(calls[p])]

\* the call log of p with the call in flight ended by result
Ended(p, result) == [calls[p] EXCEPT ![Len(calls[p])].result = result]

\* a request arrives and its handler runs to its first await or response
Start(p, r, step) ==
    /\ req' = [req EXCEPT ![p] = r]
    /\ Apply(p, step, << >>)
    /\ UNCHANGED <<plans, nodeEnv>>

CreateStart(p) ==
    /\ pc[p] = "idle"
    /\ \E r \in CreateRequests : Start(p, r, CreateBegin(r, nodeEnv))

ListStart(p) ==
    /\ pc[p] = "idle"
    /\ \E r \in ListRequests : Start(p, r, ListBegin(r, nodeEnv))

GetStart(p) ==
    /\ pc[p] = "idle"
    /\ \E r \in GetRequests : Start(p, r, GetBegin(r, nodeEnv))

UpdateStart(p) ==
    /\ pc[p] = "idle"
    /\ \E r \in UpdateRequests : Start(p, r, UpdateBegin(r, nodeEnv))

DeleteStart(p) ==
    /\ pc[p] = "idle"
    /\ \E r \in DeleteRequests : Start(p, r, DeleteBegin(r, nodeEnv))

CreateOrganization(p) ==
    /\ pc[p] = "create:organization"
    /\ \E o \in Outcomes(InFlight(p), plans) :
         /\ plans' = o.rows
         /\ Apply(p, CreateOnOrganization(loc[p], o.result, nodeEnv), Ended(p, o.result))
    /\ UNCHANGED <<nodeEnv, req>>

CreateRpc(p) ==
    /\ pc[p] = "create:rpc"
    /\ \E o \in Outcomes(InFlight(p), plans) :
         /\ plans' = o.rows
         /\ Apply(p, CreateOnCreated(loc[p], o.result, nodeEnv), Ended(p, o.result))
    /\ UNCHANGED <<nodeEnv, req>>

CreateDelay(p) ==
    /\ pc[p] = "create:delay"
    /\ Apply(p, CreateOnDelay(loc[p]), calls[p])
    /\ UNCHANGED <<plans, nodeEnv, req>>

CreateFetch(p) ==
    /\ pc[p] = "create:fetch"
    /\ \E o \in Outcomes(InFlight(p), plans) :
         /\ plans' = o.rows
         /\ Apply(p, CreateOnFetched(loc[p], o.result, nodeEnv), Ended(p, o.result))
    /\ UNCHANGED <<nodeEnv, req>>

ListRpc(p) ==
    /\ pc[p] = "list:rpc"
    /\ \E o \in Outcomes(InFlight(p), plans) :
         /\ plans' = o.rows
         /\ Apply(p, ListOnListed(loc[p], o.result, nodeEnv), Ended(p, o.result))
    /\ UNCHANGED <<nodeEnv, req>>

GetRpc(p) ==
    /\ pc[p] = "get:rpc"
    /\ \E o \in Outcomes(InFlight(p), plans) :
         /\ plans' = o.rows
         /\ Apply(p, GetOnFetched(loc[p], o.result, nodeEnv), Ended(p, o.result))
    /\ UNCHANGED <<nodeEnv, req>>

UpdateRpc(p) ==
    /\ pc[p] = "update:rpc"
    /\ \E o \in Outcomes(InFlight(p), plans) :
         /\ plans' = o.rows
         /\ Apply(p, UpdateOnUpdated(loc[p], o.result, nodeEnv), Ended(p, o.result))
    /\ UNCHANGED <<nodeEnv, req>>

UpdateDelay(p) ==
    /\ pc[p] = "update:delay"
    /\ Apply(p, UpdateOnDelay(loc[p]), calls[p])
    /\ UNCHANGED <<plans, nodeEnv, req>>

UpdateFetch(p) ==
    /\ pc[p] = "update:fetch"
    /\ \E o \in Outcomes(InFlight(p), plans) :
         /\ plans' = o.rows
         /\ Apply(p, UpdateOnFetched(loc[p], o.result, nodeEnv), Ended(p, o.result))
    /\ UNCHANGED <<nodeEnv, req>>

DeleteRpc(p) ==
    /\ pc[p] = "delete:rpc"
    /\ \E o \in Outcomes(InFlight(p), plans) :
         /\ plans' = o.rows
         /\ Apply(p, DeleteOnDeleted(loc[p], o.result, nodeEnv), Ended(p, o.result))
    /\ UNCHANGED <<nodeEnv, req>>

\* the response has gone out; the request and response objects are dropped
Finish(p) ==
    /\ pc[p] = "done"
    /\ pc' = [pc EXCEPT ![p] = "idle"]
    /\ req' = [req EXCEPT ![p] = NoRequest]
    /\ loc' = [loc EXCEPT ![p] = EmptyObject]
    /\ calls' = [calls EXCEPT ![p] = << >>]
    /\ sent' = [sent EXCEPT ![p] = << >>]
    /\ UNCHANGED <<plans, nodeEnv>>

Next ==
    \E p \in Slots :
        \/ CreateStart(p) \/ CreateOrganization(p) \/ CreateRpc(p) \/ CreateDelay(p) \/ CreateFetch(p)
        \/ ListStart(p) \/ ListRpc(p)
        \/ GetStart(p) \/ GetRpc(p)
        \/ UpdateStart(p) \/ UpdateRpc(p) \/ UpdateDelay(p) \/ UpdateFetch(p)
        \/ DeleteStart(p) \/ DeleteRpc(p)
        \/ Finish(p)

Spec == Init /\ [][Next]_vars

\* the handler of slot p is resumed: the remote call it awaits ends, or its delay
\* elapses
Resume(p) ==
    \/ CreateOrganization(p) \/ CreateRpc(p) \/ CreateDelay(p) \/ CreateFetch(p)
    \/ ListRpc(p)
    \/ GetRpc(p)
    \/ UpdateRpc(p) \/ UpdateDelay(p) \/ UpdateFetch(p)
    \/ DeleteRpc(p)

\* every awaited remote call ends (by returning or throwing) and every timer fires,
\* and the event loop then resumes the handler
FairSpec == Spec /\ \A p \in Slots : WF_vars(Resume(p))

---------------------------------------------------------------------------
(* Vocabulary of the properties *)

Done(p) == pc[p] = "done"
Active(p) == req[p].op # "none"
Response(p) == sent[p][1]
IsErrorResponse(p) == Done(p) /\ "error" \in DOMAIN Response(p).body
IsSuccessResponse(p) == Done(p) /\ "success" \in DOMAIN Response(p).body

\* the n-th remote call of the request in slot p has been made
Called(p, n) == Len(calls[p]) >= n
ResultOf(p, n) == calls[p][n].result
CallsOf(p, fn) == {n \in 1..Len(calls[p]) : calls[p][n].fn = fn}

\* the remote result carries data that is a non-empty array
HasRows(result) == result.kind = "data" /\ Len(result.data) >= 1
\* the remote call returned (an error value, null or data) rather than threw
Returned(result) == result.kind \in {"data", "null", "error"}

\* the response is the 400 of a validation failure and no remote call was made
Rejected(p) ==
    /\ Done(p)
    /\ Len(sent[p]) = 1
    /\ Response(p).status = 400
    /\ IsErrorResponse(p)
    /\ Response(p).body.error.code = "INVALID_REQUEST"
    /\ calls[p] = << >>

\* the request fails the schemas its handler applies
FailsValidation(r) ==
    CASE r.op = "create" ->
           ~merchantIdParamSchema(r.params).success \/ ~createSubscriptionPlanSchema(r.body).success
      [] r.op = "list" -> ~listParamsSchema(Spread(r.params, r.query)).success
      [] r.op = "get" -> ~merchantAndPlanParamsSchema(r.params).success
      [] r.op = "update" ->
           ~merchantAndPlanParamsSchema(r.params).success
             \/ ~updateSubscriptionPlanApiSchema(r.body).success
      [] r.op = "delete" -> ~merchantAndPlanParamsSchema(r.params).success
      [] OTHER -> FALSE

---------------------------------------------------------------------------
(* C1: in each of the five handlers a request that fails schema validation *)
(* is answered 400 INVALID_REQUEST and no remote procedure is invoked for  *)
(* it; in particular every update body with neither metadata nor is_active *)
(* and every create body whose amount is not strictly positive.            *)
C1_ValidationRejects ==
    \A p \in Slots :
        /\ Active(p) /\ FailsValidation(req[p]) => Rejected(p)
        /\ Active(p) /\ req[p].op = "update"
              /\ ~Has(req[p].body, "metadata") /\ ~Has(req[p].body, "is_active")
              => Rejected(p)
        /\ Active(p) /\ req[p].op = "create"
              /\ Has(req[p].body, "amount") /\ req[p].body.amount.t = "number"
              /\ req[p].body.amount.v <= 0
              => Rejected(p)

\* an update with well-formed ids and an empty body has been rejected
C1_Witness ==
    \E p \in Slots :
        /\ Done(p) /\ req[p].op = "update"
        /\ req[p].params.merchant_id = MerchantA /\ req[p].params.plan_id \in PlanIds
        /\ req[p].body = EmptyObject
        /\ Rejected(p)

---------------------------------------------------------------------------
(* C2: for every valid create request whose organization lookup returns a  *)
(* value and whose create procedure returns a plan id without error, the   *)
(* create procedure is invoked exactly once and the response is 201 with   *)
(* success=true: the full plan record when the refetch returns at least    *)
(* one row, exactly {plan_id} with a warning when the refetch returns an   *)
(* error, null or zero rows.  A 201 never lacks both the record and the id.*)
CreateSucceeded(p) ==
    /\ req[p].op = "create"
    /\ Called(p, 2)
    /\ ResultOf(p, 1).kind = "data" /\ ResultOf(p, 1).data # ""
    /\ ResultOf(p, 2).kind = "data" /\ ResultOf(p, 2).data # ""

---------------------------------------------------------------------------
\* the request in slot p ended on the store error e of its n-th call, which its
\* handler passed to handleDatabaseError
EndedOnStoreError(p, n) ==
    /\ Done(p)
    /\ Len(calls[p]) = n
    /\ ResultOf(p, n).kind = "error"
    /\ calls[p][n].fn # "get_subscription_plan" \/ req[p].op = "get"

StoreErrorCode(p) == Get(ResultOf(p, Len(calls[p])).error, "code")

(* C3: on a store error with foreign-key code 23503, the delete handler    *)
(* answers HTTP 409 CONFLICT with the plan-in-use message and the hint to  *)
(* delete the subscriptions first or deactivate the plan; the update       *)
(* handler and the create handler (error from the create procedure) answer *)
(* HTTP 409 CONFLICT with the generic foreign-key message and no hint.     *)
C3_ForeignKeyIs409 ==
    \A p \in Slots :
        (\E n \in 1..2 : EndedOnStoreError(p, n)) /\ StoreErrorCode(p) = "23503" =>
            LET e == Response(p).body.error IN
            /\ req[p].op = "delete" =>
                  /\ Response(p).status = 409 /\ e.status = 409 /\ e.code = "CONFLICT"
                  /\ e.message = MsgPlanInUse
                  /\ Has(e.details, "hint") /\ e.details.hint = HintPlanInUse
            /\ req[p].op = "update" \/ (req[p].op = "create" /\ Len(calls[p]) = 2) =>
                  /\ Response(p).status = 409 /\ e.status = 409 /\ e.code = "CONFLICT"
                  /\ e.message = MsgForeignKey
                  /\ ~Has(e.details, "hint")

---------------------------------------------------------------------------
(* C4: handleDatabaseError is a total function of the store error code:    *)
(* PGRST116 and 22P02 give status 404 and code NOT_FOUND, 23503 and 23505  *)
(* give 409 and CONFLICT, every other code and a missing code give 500 and *)
(* DATABASE_ERROR.  The context changes only the message and the hint of   *)
(* the 23503 case, never the status or the code.                           *)
C4_ErrorTable ==
    \A p \in Slots :
        (\E n \in 1..2 : EndedOnStoreError(p, n)) =>
            LET e == Response(p).body.error
                c == StoreErrorCode(p)
            IN /\ IsErrorResponse(p)
               /\ c \in {"PGRST116", "22P02"} =>
                     e.status = 404 /\ e.code = "NOT_FOUND" /\ e.message = MsgResourceNotFound
               /\ c \in {"23503", "23505"} => e.status = 409 /\ e.code = "CONFLICT"
               /\ c = "23505" => e.message = MsgUnique
               /\ c = "23503" => e.message \in {MsgForeignKey, MsgPlanInUse}
               /\ c \notin {"PGRST116", "22P02", "23503", "23505"} =>
                     e.status = 500 /\ e.code = "DATABASE_ERROR" /\ e.message = MsgDatabase
               /\ c # "23503" => ~Has(e.details, "hint")
               /\ e.details.db_code = c

\* a store error without a code has been classified as 500 DATABASE_ERROR
C4_Witness ==
    \E p \in Slots :
        /\ EndedOnStoreError(p, 1)
        /\ ~Has(ResultOf(p, 1).error, "code")
        /\ Response(p).body.error.status = 500
        /\ Response(p).body.error.code = "DATABASE_ERROR"

---------------------------------------------------------------------------
(* C5: in production (NODE_ENV = production) no error response carries     *)
(* low-level diagnostic detail: the details of a store-failure response    *)
(* hold no raw store code, message or hint, and the details of an          *)
(* INTERNAL_ERROR response hold no exception message.  Outside production  *)
(* these details are included.                                             *)
C5_ProductionHidesDetail ==
    \A p \in Slots :
        IsErrorResponse(p) =>
            LET e == Response(p).body.error IN
            /\ (\E n \in 1..2 : EndedOnStoreError(p, n)) =>
                  IF nodeEnv = "production"
                  THEN ~Has(e.details, "db_code") /\ ~Has(e.details, "db_message")
                         /\ ~Has(e.details, "db_hint")
                  ELSE e.details.db_code = StoreErrorCode(p)
            /\ e.code = "INTERNAL_ERROR" /\ ResultOf(p, Len(calls[p])).kind = "throw" =>
                  IF nodeEnv = "production"
                  THEN e.details = UNDEF
                  ELSE e.details = ResultOf(p, Len(calls[p])).thrown.message

---------------------------------------------------------------------------
\* the update procedure of the request in slot p returned a truthy indicator
UpdateSucceeded(p) ==
    /\ req[p].op = "update"
    /\ Called(p, 1)
    /\ ResultOf(p, 1) = Data(TRUE)

\* the parts of C6 that do not depend on how updated_fields is read
UpdateAnswers(p, fields) ==
    /\ req[p].op = "update" /\ Called(p, 1) /\ IsFalse(ResultOf(p, 1)) =>
          /\ Done(p) /\ Len(sent[p]) = 1 /\ Len(calls[p]) = 1
          /\ Response(p).status = 404
          /\ IsErrorResponse(p) /\ Response(p).body.error.code = "NOT_FOUND"
    /\ UpdateSucceeded(p) =>
          /\ Cardinality(CallsOf(p, "get_subscription_plan")) <= 1
          /\ Cardinality(CallsOf(p, "update_subscription_plan_api")) = 1
          /\ Done(p) => Len(calls[p]) = 2
    /\ UpdateSucceeded(p) /\ Called(p, 2) /\ Returned(ResultOf(p, 2)) =>
          /\ Done(p) /\ Len(sent[p]) = 1
          /\ Response(p).status = 200
          /\ IsSuccessResponse(p) /\ Response(p).body.success = TRUE
          /\ IF HasRows(ResultOf(p, 2))
             THEN /\ Response(p).body.data = ResultOf(p, 2).data[1]
                  /\ ~Has(Response(p).body, "message")
             ELSE /\ DOMAIN Response(p).body.data = {"plan_id", "updated_fields"}
                  /\ Response(p).body.data.plan_id = req[p].params.plan_id
                  /\ Response(p).body.data.updated_fields = fields
                  /\ Response(p).body.message = MsgUpdateFetchFailed
    /\ UpdateSucceeded(p) /\ req[p].body = [is_active |-> Bool(FALSE)]
          /\ Called(p, 2) /\ ResultOf(p, 2).kind = "data" =>
          /\ Response(p).status = 200
          /\ HasRows(ResultOf(p, 2))
          /\ Response(p).body.data.plan_id = req[p].params.plan_id
          /\ Response(p).body.data.merchant_id = req[p].params.merchant_id
          /\ Response(p).body.data.is_active = FALSE

---------------------------------------------------------------------------
(* C7: in the get handler with valid path ids, when the fetch procedure    *)
(* returns no error, the response is 200 with data equal to the first      *)
(* returned row exactly when at least one row was returned, and 404        *)
(* NOT_FOUND when the result is null or has zero rows; a plan id that is   *)
(* not present under the given merchant yields 404, never 200 or 500.      *)
C7_GetAnswers ==
    \A p \in Slots :
        req[p].op = "get" /\ Called(p, 1) /\ ResultOf(p, 1).kind \in {"data", "null"} =>
            /\ Done(p) /\ Len(sent[p]) = 1 /\ Len(calls[p]) = 1
            /\ IF HasRows(ResultOf(p, 1))
               THEN /\ Response(p).status = 200
                    /\ IsSuccessResponse(p)
                    /\ Response(p).body.data = ResultOf(p, 1).data[1]
               ELSE /\ Response(p).status = 404
                    /\ IsErrorResponse(p)
                    /\ Response(p).body.error.code = "NOT_FOUND"
                    /\ Response(p).body.error.status = 404
            /\ (\A r \in plans : ~(r.plan_id = req[p].params.plan_id
                                      /\ r.merchant_id = req[p].params.merchant_id))
                 => Response(p).status = 404 /\ Response(p).body.error.code = "NOT_FOUND"

\* a plan owned by one merchant was asked for under another and not found
C7_Witness ==
    \E p \in Slots :
        /\ Done(p) /\ req[p].op = "get" /\ Called(p, 1)
        /\ ResultOf(p, 1) = Data(<< >>)
        /\ \E r \in plans : r.plan_id = req[p].params.plan_id
                               /\ r.merchant_id # req[p].params.merchant_id
        /\ Response(p).status = 404

---------------------------------------------------------------------------
\* the validated input of the list request in slot p: the path overlaid by the query
ListInput(p) == Spread(req[p].params, req[p].query)

(* C8: in the list handler with a valid merchant id, an absent limit and   *)
(* offset are passed to the listing procedure as 20 and 0 and echoed in    *)
(* meta; supplied valid ones are passed and echoed as coerced.  When the   *)
(* procedure returns no error the response is 200, data is the returned    *)
(* array (the empty array when it returns null or no rows) and             *)
(* meta.total_returned is the length of data.                              *)
C8_ListDefaultsAndEcho ==
    \A p \in Slots :
        req[p].op = "list" /\ Called(p, 1) =>
            LET a == calls[p][1].args
                q == ListInput(p)
                result == ResultOf(p, 1)
                body == Response(p).body
            IN /\ calls[p][1].fn = "list_subscription_plans"
               /\ Len(calls[p]) = 1
               /\ a.p_merchant_id = q.merchant_id
               /\ ~Has(q, "limit") => a.p_limit = 20
               /\ ~Has(q, "offset") => a.p_offset = 0
               /\ Has(q, "limit") => a.p_limit = JsNumber(q.limit).int /\ a.p_limit >= 1
               /\ Has(q, "offset") => a.p_offset = JsNumber(q.offset).int /\ a.p_offset >= 0
               /\ Has(q, "limit") /\ Has(q, "offset") /\ q.limit = <<"5">> /\ q.offset = <<"1">>
                     => a.p_limit = 5 /\ a.p_offset = 1
               /\ result.kind \in {"data", "null"} =>
                     /\ Done(p) /\ Len(sent[p]) = 1
                     /\ Response(p).status = 200
                     /\ IsSuccessResponse(p) /\ body.success = TRUE
                     /\ body.data = (IF result.kind = "null" THEN << >> ELSE result.data)
                     /\ body.meta.limit = a.p_limit
                     /\ body.meta.offset = a.p_offset
                     /\ body.meta.total_returned = Len(body.data)

\* a listing without limit and offset returned a row and echoed 20 and 0
C8_Witness ==
    \E p \in Slots :
        /\ Done(p) /\ req[p].op = "list" /\ req[p].query = EmptyObject
        /\ Called(p, 1) /\ HasRows(ResultOf(p, 1))
        /\ Response(p).status = 200
        /\ Response(p).body.meta = [limit |-> 20, offset |-> 0, total_returned |-> 1]

---------------------------------------------------------------------------
(* C9: in the create handler the plan-creation procedure is invoked only   *)
(* after the organization lookup for the path merchant_id has returned,    *)
(* without error, a non-empty organization id; it is passed that value as  *)
(* organization id and the path merchant_id as merchant id, and no value   *)
(* of the request body sets or overrides either.  A lookup that returns an *)
(* error or an empty value gives 404 and no creation call.                 *)
C9_OrganizationResolvedServerSide ==
    \A p \in Slots :
        req[p].op = "create" =>
            /\ \A n \in CallsOf(p, "create_subscription_plan") :
                  /\ n = 2
                  /\ calls[p][1].fn = "get_merchant_organization_id"
                  /\ calls[p][1].args = [p_merchant_id |-> req[p].params.merchant_id]
                  /\ ResultOf(p, 1).kind = "data" /\ ResultOf(p, 1).data # ""
                  /\ calls[p][2].args.p_organization_id = ResultOf(p, 1).data
                  /\ calls[p][2].args.p_merchant_id = req[p].params.merchant_id
            /\ Called(p, 1) /\ (IsError(ResultOf(p, 1)) \/ IsFalsy(ResultOf(p, 1))) =>
                  /\ Done(p) /\ Len(sent[p]) = 1
                  /\ Response(p).status = 404
                  /\ CallsOf(p, "create_subscription_plan") = {}
            /\ \A r \in plans : r.organization_id = OrganizationOf(r.merchant_id)

\* a body naming another merchant and organization created a plan under the
\* path merchant and the organization looked up for it
C9_Witness ==
    \E p \in Slots :
        /\ req[p].op = "create" /\ Called(p, 2)
        /\ req[p].params.merchant_id = MerchantA
        /\ Has(req[p].body, "organization_id") /\ req[p].body.organization_id.v = "org-uuid-B"
        /\ Has(req[p].body, "merchant_id") /\ req[p].body.merchant_id.v = MerchantB
        /\ calls[p][2].args.p_organization_id = "org-uuid-A"
        /\ calls[p][2].args.p_merchant_id = MerchantA
        /\ ResultOf(p, 2).kind = "data"

---------------------------------------------------------------------------
\* the envelope {error: {status, code, message, details, timestamp}}
IsErrorEnvelope(body) ==
    /\ DOMAIN body = {"error"}
    /\ DOMAIN body.error = {"status", "code", "message", "details", "timestamp"}

\* what C10 says of one state of the request in slot p
OneResponse(p) ==
    /\ Len(sent[p]) = (IF Done(p) THEN 1 ELSE 0)
    /\ ~Active(p) => pc[p] = "idle" /\ calls[p] = << >>
    /\ \A n \in 1..Len(calls[p]) :
          /\ ResultOf(p, n).kind = "throw" =>
                /\ Done(p) /\ n = Len(calls[p])
                /\ Response(p).status = 500
                /\ IsErrorEnvelope(Response(p).body)
                /\ Response(p).body.error.status = 500
                /\ Response(p).body.error.code = "INTERNAL_ERROR"
          /\ ResultOf(p, n).kind \in {"error", "throw"} =>
                \A m \in 1..Len(calls[p]) : m > n => calls[p][m].fn # calls[p][n].fn
          /\ ResultOf(p, n).kind = "pending" => n = Len(calls[p]) /\ ~Done(p)
    /\ IsErrorResponse(p) => IsErrorEnvelope(Response(p).body)

(* C10: every handler invocation runs to completion and sends exactly one  *)
(* response, whatever each of its remote calls does (returns data, returns *)
(* an error value, or throws); a throw inside the handler gives 500        *)
(* INTERNAL_ERROR in the error envelope; no path ends without a response   *)
(* or sends two, and no remote procedure is retried after a failure.       *)
C10_RunsToOneResponse ==
    /\ [](\A p \in Slots : OneResponse(p))
    /\ \A p \in Slots : Active(p) ~> Done(p)

\* the refetch of an update threw after the plan was updated, and the request
\* ended with one 500 INTERNAL_ERROR
C10_Witness ==
    \E p \in Slots :
        /\ Done(p) /\ UpdateSucceeded(p) /\ Called(p, 2)
        /\ ResultOf(p, 2).kind = "throw"
        /\ Len(sent[p]) = 1
        /\ Response(p).status = 500
        /\ Response(p).body.error.code = "INTERNAL_ERROR"

---------------------------------------------------------------------------
(* Two requests in flight.  The handlers are async functions of one event  *)
(* loop: while one is suspended on a remote call or on delay(FETCH_DELAY_MS)*)
(* the loop runs the segments of another.  The requests are the ones that  *)
(* write one plan of one merchant, so that they meet at the store.         *)

RaceSlots == {"r1", "r2"}

RacePlanParams == [merchant_id |-> MerchantA, plan_id |-> PlanUuids[1]]

RaceCreateRequests ==
    {Request("create", [merchant_id |-> MerchantA], EmptyObject, BaseCreateBody)}
RaceUpdateRequests ==
    {Request("update", RacePlanParams, EmptyObject, [is_active |-> Bool(b)]) : b \in BOOLEAN}
RaceDeleteRequests ==
    {Request("delete", RacePlanParams, EmptyObject, EmptyObject)}

RaceInit ==
    /\ plans = {}
    /\ nodeEnv \in {"production", "development"}
    /\ pc = [p \in RaceSlots |-> "idle"]
    /\ req = [p \in RaceSlots |-> NoRequest]
    /\ loc = [p \in RaceSlots |-> EmptyObject]
    /\ calls = [p \in RaceSlots |-> << >>]
    /\ sent = [p \in RaceSlots |-> << >>]

RaceCreateStart(p) ==
    /\ pc[p] = "idle"
    /\ \E r \in RaceCreateRequests : Start(p, r, CreateBegin(r, nodeEnv))

RaceUpdateStart(p) ==
    /\ pc[p] = "idle"
    /\ \E r \in RaceUpdateRequests : Start(p, r, UpdateBegin(r, nodeEnv))

RaceDeleteStart(p) ==
    /\ pc[p] = "idle"
    /\ \E r \in RaceDeleteRequests : Start(p, r, DeleteBegin(r, nodeEnv))

RaceNext ==
    \E p \in RaceSlots :
        \/ RaceCreateStart(p) \/ CreateOrganization(p) \/ CreateRpc(p) \/ CreateDelay(p)
        \/ CreateFetch(p)
        \/ RaceUpdateStart(p) \/ UpdateRpc(p) \/ UpdateDelay(p) \/ UpdateFetch(p)
        \/ RaceDeleteStart(p) \/ DeleteRpc(p)
        \/ Finish(p)

RaceSpec == RaceInit /\ [][RaceNext]_vars

---------------------------------------------------------------------------
\* the handler in slot p has written and has not yet read what it wrote
BetweenWriteAndRead(p) ==
    pc[p] \in {"create:delay", "create:fetch", "update:delay", "update:fetch"}

\* nothing holds the request in slot q back: it can be started, and the write or
\* delete it is suspended on can take effect, in the state as it is
NotHeldBack(q) ==
    /\ pc[q] = "idle" => ENABLED RaceUpdateStart(q) /\ ENABLED RaceDeleteStart(q)
    /\ pc[q] = "update:rpc" => ENABLED UpdateRpc(q)
    /\ pc[q] = "delete:rpc" => ENABLED DeleteRpc(q)

\* the handler in slot p answers in this step, on its refetch, with a full record
AnswersWithRecord(p) ==
    /\ pc[p] \in {"create:fetch", "update:fetch"}
    /\ pc'[p] = "done"
    /\ sent'[p][1].status \in {200, 201}
    /\ ~Has(sent'[p][1].body, "message")

(* C11: the write-then-refetch pair of the update and create handlers is   *)
(* not atomic.  While a handler is between its successful write and its    *)
(* delayed read, no lock, lease or transaction holds back another request  *)
(* on the same plan: it can start, and its write or delete can take effect.*)
(* The record a handler then answers with is the row as the store holds it *)
(* at the read, whatever the handler itself wrote; the reachable execution *)
(* in which that record differs from the values just written is the        *)
(* witness.                                                                *)
C11_WriteThenRefetchNotAtomic ==
    /\ [](\A p, q \in RaceSlots : p # q /\ BetweenWriteAndRead(p) => NotHeldBack(q))
    /\ [][\A p \in RaceSlots : AnswersWithRecord(p) => sent'[p][1].body.data \in plans']_vars

\* an update to is_active=false had its write succeed, another request's update to
\* is_active=true took effect before its read, and it answered 200 with a record
\* whose is_active is true
C11_Witness ==
    \E p, q \in RaceSlots :
        /\ p # q
        /\ Done(p) /\ UpdateSucceeded(p) /\ Called(p, 2) /\ HasRows(ResultOf(p, 2))
        /\ req[p].body = [is_active |-> Bool(FALSE)]
        /\ UpdateSucceeded(q) /\ req[q].body = [is_active |-> Bool(TRUE)]
        /\ req[q].params.plan_id = req[p].params.plan_id
        /\ Response(p).status = 200
        /\ Response(p).body.success = TRUE
        /\ Response(p).body.data.plan_id = req[p].params.plan_id
        /\ Response(p).body.data.is_active = TRUE

\* an update had its write succeed, another request's delete took effect before
\* its read, and it answered 200 with the plan id and updated_fields alone
C11_DeletedBeforeRead ==
    \E p, q \in RaceSlots :
        /\ p # q
        /\ Done(p) /\ UpdateSucceeded(p) /\ Called(p, 2)
        /\ ResultOf(p, 2) = Data(<< >>)
        /\ req[q].op = "delete" /\ Done(q) /\ Response(q).status = 204
        /\ Response(p).status = 200
        /\ DOMAIN Response(p).body.data = {"plan_id", "updated_fields"}

\* a create had its write succeed, another request's update took effect before its
\* read, and it answered 201 with a record that is not active
C11_CreateOvertaken ==
    \E p, q \in RaceSlots :
        /\ p # q
        /\ Done(p) /\ CreateSucceeded(p) /\ Called(p, 3) /\ HasRows(ResultOf(p, 3))
        /\ UpdateSucceeded(q) /\ req[q].body = [is_active |-> Bool(FALSE)]
        /\ Response(p).status = 201
        /\ Response(p).body.data.plan_id = ResultOf(p, 2).data
        /\ Response(p).body.data.is_active = FALSE

---------------------------------------------------------------------------
(* C12: in every error response sent by any of the five handlers, the HTTP *)
(* status of the response equals the status field inside the error body    *)
(* (error.status), for store errors of every code on every path: the       *)
(* organization lookup and the create procedure in create, and the store   *)
(* calls in list, get, update and delete.                                  *)
C12_StatusMatchesBody ==
    \A p \in Slots :
        IsErrorResponse(p) => Response(p).status = Response(p).body.error.status

---------------------------------------------------------------------------
\* the handler of the request in slot p runs in this step
Runs(p) == pc'[p] # pc[p]

\* the request in slot p names, under its path merchant, a plan another merchant owns
AddressesForeignPlan(p) ==
    \E r \in plans :
        /\ r.plan_id = req[p].params.plan_id
        /\ r.merchant_id # req[p].params.merchant_id

\* what C13 says of one step of the request in slot p
LeavesOtherMerchantsAlone(p) ==
    /\ \A r \in plans : r \notin plans' => req[p].params.merchant_id = r.merchant_id
    /\ pc[p] = "delete:rpc" /\ AddressesForeignPlan(p) =>
          /\ plans' = plans
          /\ pc'[p] = "done" => sent'[p][1].status # 204

(* C13: operations addressed to one merchant never change another          *)
(* merchant's plans: a plan owned by merchant B is removed or modified     *)
(* only by a request whose path merchant_id is B; in particular a DELETE   *)
(* sent to /merchants/A/subscriptions/{plan_id} with a plan_id owned by B  *)
(* (A different from B) does not remove that plan and does not answer 204. *)
C13_MerchantsAreIsolated ==
    [][\A p \in Slots : Runs(p) => LeavesOtherMerchantsAlone(p)]_vars

====
